---- MODULE Spec2Model ----
(***************************************************************************)
(* The waiter list of src/src/waiter.rs: an intrusive doubly linked list   *)
(* of Future wakers (List, Elem, Waiter), the Bar future and the test      *)
(* await_waiters_synchronize of its tests module.                          *)
(*                                                                         *)
(* util::linked_list, the intrusive list container, is modelled from its   *)
(* contract (push_front, pop_back, remove, is_empty, len, len_backwards)   *)
(* as a head/tail list with prev/next pointers in the nodes.               *)
(*                                                                         *)
(* Spec makes the calls of impl List on one list, SpecDrop also drops and  *)
(* constructs records, SpecTwo makes the calls on two lists that share the *)
(* records, and SpecTest is the test.                                      *)
(***************************************************************************)
EXTENDS Integers, Sequences, FiniteSets, TLC

\* ------------------------------------------------------------------ bounds
\* Number of Elem records the calls of Spec are made on.
NumElems == 3
\* Number of tasks the test spawns, each awaiting one Bar.
NumBars == 4
\* Number of distinct Waker handles passed to enqueue_waiter.
NumWakers == 3
\* Number of Elem records the calls on two List instances are made on.
NumShared == 2

Recs == 1 .. NumElems
Bars == 1 .. NumBars
\* Every record there is: record t is the Elem of the Bar of task t.
Slots == Recs \cup Bars
\* The records that calls on either of two lists are made on.
Shared == 1 .. NumShared

\* Option::None of a NonNull<Waiter> link.
Null == 0

\* A Waker handle: the task it wakes and the identity of the handle itself.
Waker(t, h) == [task |-> t, id |-> h]
\* Handles 1 and 2 wake task 1, handles 3 and 4 wake task 2, and so on.
TaskOf(h) == (h + 1) \div 2
Wakers == {Waker(TaskOf(h), h) : h \in 1 .. NumWakers}
\* Option<Waker>::None
NoWaker == [task |-> 0, id |-> 0]

\* Waker::will_wake: both handles wake the same task.
will_wake(w, other) == w # NoWaker /\ other # NoWaker /\ w.task = other.task

\* Waker::clone: another handle of the same task, equal to the one cloned.
clone(w) == [task |-> w.task, id |-> w.id]

VARIABLES
    head,       \* LinkedList.head: the newest record, or Null
    tail,       \* LinkedList.tail: the oldest record, or Null
    second,     \* head and tail of the LinkedList of a second List instance
    pointers,   \* Waiter.pointers: [prev, next] of each record
    queued,     \* Waiter.queued
    waker,      \* Waiter.waker
    alive,      \* the Elem has been constructed and not yet dropped
    panicked,   \* "no", or the assertion that failed
    triggered,  \* the handles woken by the most recent call, in order
    lastOp,     \* history: the most recent call and the state it found
    order,      \* history: linked records by Unlinked->Linked time, oldest first
    removedSet, \* history: records removed by remove_waiter and not registered since
    enqOnly,    \* history: only Elem::new and enqueue_waiter have been called so far
    enqSet,     \* history: records enqueue_waiter was called on while enqOnly
    registered, \* history: records registered and not woken by awake_waiters since
    pc,         \* test: position of each spawned task
    countdown,  \* test: Bar.countdown of each task's future
    scheduled,  \* test: the task is in the LocalSet's run queue
    progress,   \* test: the progress string
    mainPc      \* test: position of the test's main future

listVars == <<head, tail, second, pointers, queued, waker, alive, panicked, triggered>>
histVars == <<lastOp, order, removedSet, enqOnly, enqSet, registered>>
testVars == <<pc, countdown, scheduled, progress, mainPc>>
vars == <<listVars, histVars, testVars>>

\* The state the code operates on, as one value.
Cur ==
    [head |-> head, tail |-> tail, pointers |-> pointers, queued |-> queued,
     waker |-> waker, alive |-> alive, panicked |-> panicked,
     triggered |-> triggered]

\* The call's result r becomes the next state (s is its value, computed once).
\* The call was made on the first list: it has no access to the second.
Commit(r) ==
    \E s \in {r} :
        /\ head' = s.head
        /\ tail' = s.tail
        /\ second' = second
        /\ pointers' = s.pointers
        /\ queued' = s.queued
        /\ waker' = s.waker
        /\ alive' = s.alive
        /\ panicked' = s.panicked
        /\ triggered' = s.triggered

\* ------------------------------------------------- util::linked_list
NoPointers == [prev |-> Null, next |-> Null]

\* LinkedList::push_front
push_front(s, n) ==
    LET p1 == [s.pointers EXCEPT ![n] = [prev |-> Null, next |-> s.head]]
        p2 == IF s.head # Null THEN [p1 EXCEPT ![s.head].prev = n] ELSE p1
    IN  [s EXCEPT !.pointers = p2,
                  !.head = n,
                  !.tail = IF s.tail = Null THEN n ELSE s.tail]

\* LinkedList::pop_back: the list without its last node; popped(s) is the node.
popped(s) == s.tail

pop_back(s) ==
    IF s.tail = Null THEN s
    ELSE LET last == s.tail
             prev == s.pointers[last].prev
             p1 == IF prev # Null
                   THEN [s.pointers EXCEPT ![prev].next = Null] ELSE s.pointers
         IN  [s EXCEPT !.tail = prev,
                       !.head = IF prev # Null THEN s.head ELSE Null,
                       !.pointers = [p1 EXCEPT ![last] = NoPointers]]

\* LinkedList::remove. It is only valid for a node linked in this list; for
\* any other node the outcome is undefined, which the model marks and stops at.
remove(s, n) ==
    LET prev == s.pointers[n].prev
        next == s.pointers[n].next
    IN  IF (prev = Null /\ s.head # n) \/ (next = Null /\ s.tail # n)
        THEN [s EXCEPT !.panicked = "undefined_remove"]
        ELSE LET p1 == IF prev # Null
                       THEN [s.pointers EXCEPT ![prev].next = next] ELSE s.pointers
                 p2 == IF next # Null THEN [p1 EXCEPT ![next].prev = prev] ELSE p1
             IN  [s EXCEPT !.head = IF prev = Null THEN next ELSE s.head,
                           !.tail = IF next = Null THEN prev ELSE s.tail,
                           !.pointers = [p2 EXCEPT ![n] = NoPointers]]

\* LinkedList::is_empty
list_is_empty(s) == s.head = Null

\* The nodes met walking from node n along the links in direction dir
\* ("next" from the head, "prev" from the tail); the walk stops after
\* fuel nodes, which only a cyclic list exhausts.
RECURSIVE walk(_, _, _, _)
walk(s, n, dir, fuel) ==
    IF n = Null \/ fuel = 0 THEN <<>>
    ELSE <<n>> \o walk(s, IF dir = "next" THEN s.pointers[n].next
                                           ELSE s.pointers[n].prev, dir, fuel - 1)

WalkFuel == 2 * Cardinality(Slots) + 1

\* LinkedList::len
list_len(s) == Len(walk(s, s.head, "next", WalkFuel))

\* LinkedList::len_backwards
list_len_backwards(s) == Len(walk(s, s.tail, "prev", WalkFuel))

\* The nodes of the list of state s: those met walking from its head.
Members(s) ==
    LET nodes == walk(s, s.head, "next", WalkFuel)
    IN  {nodes[i] : i \in 1 .. Len(nodes)}

\* ------------------------------------------------------ waiter.rs
\* Record n is out of the list of state s: neither the list nor any record
\* points to it and its own pointers are null.
detached(s, n) ==
    /\ s.head # n /\ s.tail # n
    /\ s.pointers[n] = NoPointers
    /\ \A o \in Slots : s.pointers[o].prev # n /\ s.pointers[o].next # n

\* Waker::wake, as seen from outside: the handle woken for record n is logged,
\* with what the record looks like at the moment of the call.
wake(s, n, w) ==
    [s EXCEPT !.triggered =
        Append(@, [rec |-> n, waker |-> w, queued |-> s.queued[n],
                   stored |-> s.waker[n], detached |-> detached(s, n)])]

\* Elem::new
Elem_new(s, e) ==
    [s EXCEPT !.queued[e] = FALSE,
              !.waker[e] = NoWaker,
              !.pointers[e] = NoPointers,
              !.alive[e] = TRUE]

\* Mutant: the drop clears the flag of a linked record in place of the assert.
Elem_drop_clear(s, e) ==
    [s EXCEPT !.alive[e] = FALSE, !.queued[e] = FALSE, !.waker[e] = NoWaker]

\* impl Drop for Elem: assert!(!queued), then the record's memory is released.
Elem_drop(s, e) ==
    IF s.queued[e]
    THEN [s EXCEPT !.panicked = "drop_queued", !.alive[e] = FALSE]
    ELSE [s EXCEPT !.alive[e] = FALSE, !.waker[e] = NoWaker]

\* Mutant: the queued check is dropped, the record is pushed on every call.
enqueue_waiter_always(s, e, cx) ==
    LET s1 == IF will_wake(s.waker[e], cx) THEN s
              ELSE [s EXCEPT !.waker[e] = clone(cx)]
    IN  push_front([s1 EXCEPT !.queued[e] = TRUE], e)

\* Mutant: the will_wake test is dropped, the handle is replaced on every call.
enqueue_waiter_replace(s, e, cx) ==
    LET s1 == [s EXCEPT !.waker[e] = clone(cx)]
    IN  IF ~s1.queued[e]
        THEN push_front([s1 EXCEPT !.queued[e] = TRUE], e)
        ELSE s1

\* Mutant: the record is pushed but its queued flag is not set.
enqueue_waiter_noflag(s, e, cx) ==
    LET s1 == IF will_wake(s.waker[e], cx) THEN s
              ELSE [s EXCEPT !.waker[e] = clone(cx)]
    IN  IF ~s1.queued[e] THEN push_front(s1, e) ELSE s1

\* Mutant: a stored handle is never replaced (Some(_) => {}).
enqueue_waiter_keep(s, e, cx) ==
    LET s1 == IF s.waker[e] # NoWaker THEN s
              ELSE [s EXCEPT !.waker[e] = clone(cx)]
    IN  IF ~s1.queued[e]
        THEN push_front([s1 EXCEPT !.queued[e] = TRUE], e)
        ELSE s1

\* Mutant: the record is pushed at the back of the list (push_back).
push_back(s, n) ==
    LET p1 == [s.pointers EXCEPT ![n] = [prev |-> s.tail, next |-> Null]]
        p2 == IF s.tail # Null THEN [p1 EXCEPT ![s.tail].next = n] ELSE p1
    IN  [s EXCEPT !.pointers = p2,
                  !.tail = n,
                  !.head = IF s.head = Null THEN n ELSE s.head]

enqueue_waiter_back(s, e, cx) ==
    LET s1 == IF will_wake(s.waker[e], cx) THEN s
              ELSE [s EXCEPT !.waker[e] = clone(cx)]
    IN  IF ~s1.queued[e]
        THEN push_back([s1 EXCEPT !.queued[e] = TRUE], e)
        ELSE s1

\* Mutant: the handle passed is not stored.
enqueue_waiter_nostore(s, e, cx) ==
    IF ~s.queued[e]
    THEN push_front([s EXCEPT !.queued[e] = TRUE], e)
    ELSE s

\* Mutant: the record is pushed unless it is found in this list (its own
\* flag, set by whichever list it was pushed on, is not consulted).
enqueue_waiter_local(s, e, cx) ==
    LET s1 == IF will_wake(s.waker[e], cx) THEN s
              ELSE [s EXCEPT !.waker[e] = clone(cx)]
    IN  IF e \notin Members(s1)
        THEN push_front([s1 EXCEPT !.queued[e] = TRUE], e)
        ELSE s1

\* List::enqueue_waiter
enqueue_waiter(s, e, cx) ==
    LET s1 == IF will_wake(s.waker[e], cx) THEN s
              ELSE [s EXCEPT !.waker[e] = clone(cx)]
    IN  IF ~s1.queued[e]
        THEN push_front([s1 EXCEPT !.queued[e] = TRUE], e)
        ELSE s1

\* Mutant: the flag is cleared but the record is not unlinked.
remove_waiter_nounlink(s, e) ==
    IF s.queued[e] THEN [s EXCEPT !.queued[e] = FALSE] ELSE s

\* Mutant: the record is unlinked but its flag is not cleared.
remove_waiter_noflag(s, e) ==
    IF s.queued[e] THEN remove(s, e) ELSE s

\* Mutant: the stored handle is taken out of the removed record.
remove_waiter_take(s, e) ==
    IF s.queued[e]
    THEN [remove(s, e) EXCEPT !.queued[e] = FALSE, !.waker[e] = NoWaker]
    ELSE s

\* Mutant: the queued check is dropped, the record is unlinked on every call.
remove_waiter_unchecked(s, e) ==
    [remove(s, e) EXCEPT !.queued[e] = FALSE]

\* List::remove_waiter
remove_waiter(s, e) ==
    IF s.queued[e]
    THEN [remove(s, e) EXCEPT !.queued[e] = FALSE]
    ELSE s

\* Mutant: the handle is taken and dropped without being woken.
awake_body_nowake(s, n) ==
    IF ~s.queued[n] THEN [s EXCEPT !.panicked = "assert_queued"]
    ELSE IF s.waker[n] = NoWaker
         THEN [s EXCEPT !.queued[n] = FALSE, !.panicked = "unwrap_none"]
         ELSE [s EXCEPT !.queued[n] = FALSE, !.waker[n] = NoWaker]

\* Mutant: the popped record's queued flag is not cleared.
awake_body_keepflag(s, n) ==
    IF ~s.queued[n] THEN [s EXCEPT !.panicked = "assert_queued"]
    ELSE IF s.waker[n] = NoWaker
         THEN [s EXCEPT !.panicked = "unwrap_none"]
         ELSE wake([s EXCEPT !.waker[n] = NoWaker], n, s.waker[n])

\* Mutant: the stored handle is woken by reference and stays in the record.
awake_body_keepwaker(s, n) ==
    IF ~s.queued[n] THEN [s EXCEPT !.panicked = "assert_queued"]
    ELSE IF s.waker[n] = NoWaker
         THEN [s EXCEPT !.queued[n] = FALSE, !.panicked = "unwrap_none"]
         ELSE wake([s EXCEPT !.queued[n] = FALSE], n, s.waker[n])

\* Mutant: the woken task registers its record again within the call.
awake_body_requeue(s, n) ==
    IF ~s.queued[n] THEN [s EXCEPT !.panicked = "assert_queued"]
    ELSE IF s.waker[n] = NoWaker
         THEN [s EXCEPT !.queued[n] = FALSE, !.panicked = "unwrap_none"]
         ELSE push_front(wake([s EXCEPT !.queued[n] = TRUE], n, s.waker[n]), n)

\* Mutant: the handle is woken before the record's flag and handle are cleared.
awake_body_wakefirst(s, n) ==
    IF ~s.queued[n] THEN [s EXCEPT !.panicked = "assert_queued"]
    ELSE IF s.waker[n] = NoWaker
         THEN [s EXCEPT !.queued[n] = FALSE, !.panicked = "unwrap_none"]
         ELSE [wake(s, n, s.waker[n]) EXCEPT !.queued[n] = FALSE,
                                             !.waker[n] = NoWaker]

\* One turn of the while-let loop of List::awake_waiters on the popped record n.
awake_body(s, n) ==
    IF ~s.queued[n] THEN [s EXCEPT !.panicked = "assert_queued"]
    ELSE IF s.waker[n] = NoWaker
         THEN [s EXCEPT !.queued[n] = FALSE, !.panicked = "unwrap_none"]
         ELSE wake([s EXCEPT !.queued[n] = FALSE, !.waker[n] = NoWaker],
                   n, s.waker[n])

\* The while-let loop: pop_back until the list is empty (s is the state at the
\* top of the loop, computed once; a panic ends the call).
RECURSIVE awake_loop(_, _)
awake_loop(r, fuel) ==
    CHOOSE out \in
        {IF popped(s) = Null \/ s.panicked # "no" \/ fuel = 0 THEN s
         ELSE awake_loop(awake_body(pop_back(s), popped(s)), fuel - 1) : s \in {r}} :
        TRUE

\* Mutant: the list is drained from the front (pop_front), newest record first.
pop_front(s) ==
    IF s.head = Null THEN s
    ELSE LET first == s.head
             next == s.pointers[first].next
             p1 == IF next # Null
                   THEN [s.pointers EXCEPT ![next].prev = Null] ELSE s.pointers
         IN  [s EXCEPT !.head = next,
                       !.tail = IF next # Null THEN s.tail ELSE Null,
                       !.pointers = [p1 EXCEPT ![first] = NoPointers]]

RECURSIVE awake_loop_front(_, _)
awake_loop_front(r, fuel) ==
    CHOOSE out \in
        {IF s.head = Null \/ s.panicked # "no" \/ fuel = 0 THEN s
         ELSE awake_loop_front(awake_body(pop_front(s), s.head), fuel - 1) : s \in {r}} :
        TRUE

awake_waiters_front(s) == awake_loop_front(s, WalkFuel)

\* Mutant: "if let" for "while let", only the oldest record is woken.
awake_waiters_once(s) == awake_loop(s, 1)

\* Mutant: once the list is drained, every record's stored handle is cleared.
awake_waiters_reset(s) ==
    [awake_loop(s, WalkFuel) EXCEPT !.waker = [e \in Slots |-> NoWaker]]

\* List::awake_waiters
awake_waiters(s) == awake_loop(s, WalkFuel)

\* List::is_empty
is_empty(s) == list_is_empty(s)

\* List::len
len(s) == list_len(s)

\* List::len_backwards
len_backwards(s) == list_len_backwards(s)

\* tests: impl Drop for Bar: remove_waiter, then the elem field is dropped.
Bar_drop(s, e) == Elem_drop(remove_waiter(s, e), e)

\* ------------------------------------------------------------ initial state
\* List::new(), with the records in made constructed by Elem::new().
InitWith(made) ==
    /\ head = Null
    /\ tail = Null
    /\ second = [head |-> Null, tail |-> Null]
    /\ pointers = [e \in Slots |-> NoPointers]
    /\ queued = [e \in Slots |-> FALSE]
    /\ waker = [e \in Slots |-> NoWaker]
    /\ alive = [e \in Slots |-> e \in made]
    /\ panicked = "no"
    /\ triggered = <<>>
    /\ lastOp = [op |-> "init", wasQueued |-> FALSE, handle |-> "none"]
    /\ order = <<>>
    /\ removedSet = {}
    /\ enqOnly = TRUE
    /\ enqSet = {}
    /\ registered = {}
    /\ pc = [t \in Bars |-> "spawned"]
    /\ countdown = [t \in Bars |-> 0]
    /\ scheduled = [t \in Bars |-> TRUE]
    /\ progress = <<"s">>
    /\ mainPc = "wait_ones"

\* The list and the records the calls are made on.
Init == InitWith(Recs)

\* The test's list: each task constructs its Bar when it first runs.
InitTest == InitWith({})

\* The state a call starts from: nothing triggered yet by this call.
Begin == [Cur EXCEPT !.triggered = <<>>]

Without(seq, e) == SelectSeq(seq, LAMBDA x : x # e)

\* The records whose handles the log of a call shows as woken.
Woken(log) == {log[i].rec : i \in 1 .. Len(log)}

\* How the handle w passed to enqueue_waiter relates to the one stored in e:
\* "same_task" when it is another handle of the task the stored one wakes.
Relation(e, w) ==
    IF e = Null \/ w = NoWaker THEN "none"
    ELSE IF waker[e] # NoWaker /\ waker[e] # w /\ waker[e].task = w.task
         THEN "same_task"
         ELSE "other"

Op(name, e, w) ==
    [op |-> name,
     wasQueued |-> IF e = Null THEN FALSE ELSE queued[e],
     handle |-> Relation(e, w)]

\* ------------------------------------------------- calls made on the list
\* unsafe { Elem::new() }
ElemNew(e) ==
    /\ panicked = "no"
    /\ ~alive[e]
    /\ Commit(Elem_new(Begin, e))
    /\ lastOp' = Op("new", e, NoWaker)
    /\ removedSet' = removedSet \ {e}
    /\ registered' = registered \ {e}
    /\ UNCHANGED <<order, enqOnly, enqSet, testVars>>

\* list.enqueue_waiter(&elem, cx) with cx.waker() = w
Enqueue(e, w) ==
    /\ panicked = "no"
    /\ alive[e]
    /\ Commit(enqueue_waiter(Begin, e, w))
    /\ lastOp' = Op("enqueue", e, w)
    /\ order' = IF queued[e] THEN order ELSE Append(order, e)
    /\ removedSet' = removedSet \ {e}
    /\ enqSet' = IF enqOnly THEN enqSet \cup {e} ELSE enqSet
    /\ registered' = registered \cup {e}
    /\ UNCHANGED <<enqOnly, testVars>>

\* list.remove_waiter(&elem)
Remove(e) ==
    /\ panicked = "no"
    /\ alive[e]
    /\ Commit(remove_waiter(Begin, e))
    /\ lastOp' = Op("remove", e, NoWaker)
    /\ order' = Without(order, e)
    /\ removedSet' = IF queued[e] THEN removedSet \cup {e} ELSE removedSet
    /\ enqOnly' = FALSE
    /\ enqSet' = {}
    /\ UNCHANGED <<registered, testVars>>

\* list.awake_waiters()
Awake ==
    /\ panicked = "no"
    /\ Commit(awake_waiters(Begin))
    /\ lastOp' = Op("awake", Null, NoWaker)
    /\ order' = <<>>
    /\ enqOnly' = FALSE
    /\ enqSet' = {}
    /\ registered' = registered \ Woken(triggered')
    /\ UNCHANGED <<removedSet, testVars>>

\* An Elem is dropped by an owner that does not call remove_waiter first.
ElemDrop(e) ==
    /\ panicked = "no"
    /\ alive[e]
    /\ Commit(Elem_drop(Begin, e))
    /\ lastOp' = Op("elem_drop", e, NoWaker)
    /\ removedSet' = removedSet \ {e}
    /\ registered' = registered \ {e}
    /\ enqOnly' = FALSE
    /\ enqSet' = {}
    /\ UNCHANGED <<order, testVars>>

\* An Elem is dropped by an owner whose drop calls remove_waiter, as Bar's does.
BarDrop(e) ==
    /\ panicked = "no"
    /\ alive[e]
    /\ Commit(Bar_drop(Begin, e))
    /\ lastOp' = Op("bar_drop", e, NoWaker)
    /\ order' = Without(order, e)
    /\ removedSet' = removedSet \ {e}
    /\ registered' = registered \ {e}
    /\ enqOnly' = FALSE
    /\ enqSet' = {}
    /\ UNCHANGED testVars

\* The calls of impl List, made in any order on any record with any handle.
Next ==
    \/ \E e \in Recs, w \in Wakers : Enqueue(e, w)
    \/ \E e \in Recs : Remove(e)
    \/ Awake

Spec == Init /\ [][Next]_vars

\* The same calls, with records dropped (with and without remove_waiter) and
\* constructed again.
NextDrop ==
    \/ \E e \in Recs, w \in Wakers : Enqueue(e, w)
    \/ \E e \in Recs : Remove(e)
    \/ Awake
    \/ \E e \in Recs : ElemNew(e)
    \/ \E e \in Recs : ElemDrop(e)
    \/ \E e \in Recs : BarDrop(e)

SpecDrop == Init /\ [][NextDrop]_vars

\* ------------------------------------------- calls made on two List instances
\* The state a call on the second list operates on: the same records, with the
\* head and tail of the second list as self.waiters.
BeginSecond == [Begin EXCEPT !.head = second.head, !.tail = second.tail]

\* The result r of a call on the second list becomes the next state; the call
\* has no access to the head and tail of the first list.
CommitSecond(r) ==
    \E s \in {r} :
        /\ second' = [head |-> s.head, tail |-> s.tail]
        /\ UNCHANGED <<head, tail>>
        /\ pointers' = s.pointers
        /\ queued' = s.queued
        /\ waker' = s.waker
        /\ alive' = s.alive
        /\ panicked' = s.panicked
        /\ triggered' = s.triggered

\* remove_waiter's safety requirement: elem belongs with the list of state s,
\* that is, it is not linked in another list.
BelongsWith(s, e) == queued[e] => e \in Members(s)

\* first.remove_waiter(&elem), by a caller that meets the safety requirement
RemoveFirst(e) ==
    /\ BelongsWith(Begin, e)
    /\ Remove(e)

\* second.enqueue_waiter(&elem, cx) with cx.waker() = w
EnqueueSecond(e, w) ==
    /\ panicked = "no"
    /\ alive[e]
    /\ CommitSecond(enqueue_waiter(BeginSecond, e, w))
    /\ lastOp' = Op("enqueue_second", e, w)
    /\ removedSet' = removedSet \ {e}
    /\ enqSet' = IF enqOnly THEN enqSet \cup {e} ELSE enqSet
    /\ registered' = registered \cup {e}
    /\ UNCHANGED <<order, enqOnly, testVars>>

\* second.remove_waiter(&elem), by a caller that meets the safety requirement
RemoveSecond(e) ==
    /\ panicked = "no"
    /\ alive[e]
    /\ BelongsWith(BeginSecond, e)
    /\ CommitSecond(remove_waiter(BeginSecond, e))
    /\ lastOp' = Op("remove_second", e, NoWaker)
    /\ removedSet' = IF queued[e] THEN removedSet \cup {e} ELSE removedSet
    /\ enqOnly' = FALSE
    /\ enqSet' = {}
    /\ UNCHANGED <<order, registered, testVars>>

\* second.awake_waiters()
AwakeSecond ==
    /\ panicked = "no"
    /\ CommitSecond(awake_waiters(BeginSecond))
    /\ lastOp' = Op("awake_second", Null, NoWaker)
    /\ enqOnly' = FALSE
    /\ enqSet' = {}
    /\ registered' = registered \ Woken(triggered')
    /\ UNCHANGED <<order, removedSet, testVars>>

\* The calls of impl List made on either of two lists, remove_waiter only on
\* the list the record belongs with.
NextTwo ==
    \/ \E e \in Shared, w \in Wakers : Enqueue(e, w)
    \/ \E e \in Shared : RemoveFirst(e)
    \/ Awake
    \/ \E e \in Shared, w \in Wakers : EnqueueSecond(e, w)
    \/ \E e \in Shared : RemoveSecond(e)
    \/ AwakeSecond

SpecTwo == Init /\ [][NextTwo]_vars

\* ------------------------------------- tests: Foo, Bar, await_waiters_synchronize
\* The countdown every task of the test passes to foo.bar.
TestCountdown == 1

\* The Waker of the Context the LocalSet polls task t with.
TaskWaker(t) == Waker(t, t)

\* Foo::bar: a Bar with a new Elem.
Foo_bar(s, e) == Elem_new(s, e)

\* impl Future for Bar: poll. The result carries the list state, the countdown
\* left and whether the poll returned Poll::Ready.
Bar_poll(s, e, cd, cx) ==
    IF cd = 0
    THEN [st |-> s, countdown |-> 0, ready |-> TRUE]
    ELSE [st |-> enqueue_waiter(s, e, cx), countdown |-> cd - 1, ready |-> FALSE]

Ones == [i \in 1 .. NumBars |-> "1"]
Twos == [i \in 1 .. NumBars |-> "2"]

\* A task polls its Bar (record t) from list state s0 with countdown cd0 and
\* progress string prog; on Ready the Bar is dropped and "2" is appended.
PollBar(t, s0, cd0, prog) ==
    LET r == Bar_poll(s0, t, cd0, TaskWaker(t))
    IN  /\ Commit(IF r.ready THEN Bar_drop(r.st, t) ELSE r.st)
        /\ countdown' = [countdown EXCEPT ![t] = r.countdown]
        /\ pc' = [pc EXCEPT ![t] = IF r.ready THEN "done" ELSE "awaiting"]
        /\ progress' = IF r.ready THEN Append(prog, "2") ELSE prog
        /\ scheduled' = [scheduled EXCEPT ![t] = FALSE]
        /\ lastOp' = Op(IF r.ready THEN "poll_ready" ELSE "poll_pending", t, NoWaker)
        /\ order' = IF r.ready THEN Without(order, t)
                    ELSE IF s0.queued[t] THEN order ELSE Append(order, t)
        /\ removedSet' = removedSet \ {t}
        /\ enqOnly' = FALSE
        /\ enqSet' = {}
        /\ registered' = IF r.ready THEN registered \ {t} ELSE registered \cup {t}
        /\ UNCHANGED mainPc

\* The spawned task runs for the first time: progress += "1", foo.bar(1).await
TaskStart(t) ==
    /\ panicked = "no"
    /\ scheduled[t]
    /\ pc[t] = "spawned"
    /\ PollBar(t, Foo_bar(Begin, t), TestCountdown, Append(progress, "1"))

\* The task is polled again after its waker was woken.
TaskResume(t) ==
    /\ panicked = "no"
    /\ scheduled[t]
    /\ pc[t] = "awaiting"
    /\ PollBar(t, Begin, countdown[t], progress)

\* Waker::wake as the LocalSet sees it: the woken tasks are put in the run queue.
Schedule(log) ==
    [t \in Bars |-> scheduled[t] \/ \E i \in 1 .. Len(log) : log[i].waker.task = t]

\* assert_eq!(len, expected)
assert_len(s, expected) ==
    IF s.panicked = "no" /\ len(s) # expected
    THEN [s EXCEPT !.panicked = "assert_eq_len"] ELSE s

\* Main, first loop: yield until progress is "s111", then assert the length,
\* call awake_waiters and assert the length again.
MainAwake ==
    /\ panicked = "no"
    /\ mainPc = "wait_ones"
    /\ IF progress # <<"s">> \o Ones THEN UNCHANGED vars
       ELSE \E s1 \in {assert_len(Begin, NumBars)} :
            \E s2 \in {IF s1.panicked = "no" THEN awake_waiters(s1) ELSE s1} :
            \E s3 \in {assert_len(s2, 0)} :
                /\ Commit(s3)
                /\ scheduled' = Schedule(s3.triggered)
                /\ mainPc' = "wait_twos"
                /\ lastOp' = Op("awake", Null, NoWaker)
                /\ order' = <<>>
                /\ registered' = registered \ Woken(s3.triggered)
                /\ UNCHANGED <<removedSet, enqOnly, enqSet, pc, countdown, progress>>

\* Main, second loop: yield until progress is "s111222".
MainFinish ==
    /\ panicked = "no"
    /\ mainPc = "wait_twos"
    /\ IF progress # <<"s">> \o Ones \o Twos THEN UNCHANGED vars
       ELSE /\ mainPc' = "done"
            /\ UNCHANGED <<listVars, histVars, pc, countdown, scheduled, progress>>

NextTest ==
    \/ \E t \in Bars : TaskStart(t)
    \/ \E t \in Bars : TaskResume(t)
    \/ MainAwake
    \/ MainFinish

\* The LocalSet runs every task in its run queue, and main yields in a loop.
SpecTest ==
    /\ InitTest
    /\ [][NextTest]_vars
    /\ \A t \in Bars : WF_vars(TaskStart(t)) /\ WF_vars(TaskResume(t))
    /\ WF_vars(MainAwake)
    /\ WF_vars(MainFinish)

\* ------------------------------------------------------------- properties
\* Each property about a call is stated in every reachable state the call can
\* be made in, of the state the call returns: the actions of Next commit
\* exactly these results.

\* The records linked in s, walking forward from the head (newest first) and
\* backward from the tail (oldest first).
Forward(s) == walk(s, s.head, "next", WalkFuel)
Backward(s) == walk(s, s.tail, "prev", WalkFuel)

\* The records a call triggered, in the order it triggered them.
RecsOf(log) == [i \in 1 .. Len(log) |-> log[i].rec]

Range(seq) == {seq[i] : i \in 1 .. Len(seq)}

NoDuplicates(seq) == \A i, j \in 1 .. Len(seq) : seq[i] = seq[j] => i = j

LinkedIn(s) == {e \in Slots : s.queued[e]}
Linked == LinkedIn(Cur)

\* A call can be made on record e: no assertion has failed and e is constructed.
Callable(e) == panicked = "no" /\ alive[e]

\* C1: awake_waiters triggers the stored handles of the linked records in the
\* order of their Unlinked->Linked transitions, oldest first, each exactly
\* once, and the list is empty when it returns.
C1_WakeFifo ==
    panicked = "no" =>
        LET s == awake_waiters(Begin)
        IN  /\ RecsOf(s.triggered) = order
            /\ NoDuplicates(RecsOf(s.triggered))
            /\ \A i \in 1 .. Len(order) : s.triggered[i].waker = waker[order[i]]
            /\ is_empty(s) /\ len(s) = 0 /\ s.tail = Null

C1_Witness ==
    /\ lastOp.op = "awake"
    /\ Len(triggered) = NumElems
    /\ removedSet = {}
    /\ head = Null

\* C2: in the test, once all N tasks have been polled once the list length is
\* N; the single awake_waiters call leaves the length 0 and no assertion of
\* the test fails; and every task is eventually polled again and completes.
AllDone == \A t \in Bars : pc[t] = "done"

C2_NoLostWakeup ==
    /\ [](progress = <<"s">> \o Ones /\ mainPc = "wait_ones" => len(Cur) = NumBars)
    /\ [](mainPc # "wait_ones" => len(Cur) = 0)
    /\ [](panicked = "no")
    /\ <>(AllDone /\ progress = <<"s">> \o Ones \o Twos /\ mainPc = "done")

C2_Witness ==
    /\ AllDone
    /\ mainPc = "done"
    /\ progress = <<"s">> \o Ones \o Twos
    /\ \A t \in Bars : ~alive[t]

\* C3: a record removed with remove_waiter and not registered again is not
\* triggered by a later awake_waiters and keeps its left-over handle; the call
\* triggers exactly the records still linked, in registration order, and
\* leaves the list empty.
C3_RemovedNotWoken ==
    panicked = "no" =>
        LET s == awake_waiters(Begin)
        IN  /\ \A e \in removedSet :
                  /\ e \notin Range(RecsOf(s.triggered))
                  /\ s.waker[e] = waker[e]
                  /\ ~s.queued[e]
            /\ Range(RecsOf(s.triggered)) = Linked
            /\ RecsOf(s.triggered) = order
            /\ LinkedIn(s) = {}
            /\ Forward(s) = <<>>

C3_Witness ==
    /\ lastOp.op = "awake"
    /\ removedSet # {}
    /\ \E e \in removedSet : waker[e] # NoWaker
    /\ Len(triggered) >= 1

\* C4: remove_waiter on a linked record removes exactly that record: the
\* length decreases by one, its flag becomes false, the other records stay
\* linked in the same relative order (in both directions), and its stored
\* handle and every other record's flag and handle are unchanged.
C4_RemoveLinked ==
    \A e \in Recs : Callable(e) /\ queued[e] =>
        LET s == remove_waiter(Begin, e)
        IN  /\ len(s) = len(Cur) - 1
            /\ len_backwards(s) = len_backwards(Cur) - 1
            /\ ~s.queued[e]
            /\ Forward(s) = Without(Forward(Cur), e)
            /\ Backward(s) = Without(Backward(Cur), e)
            /\ s.pointers[e] = NoPointers
            /\ s.waker = waker
            /\ \A o \in Slots \ {e} : s.queued[o] = queued[o]
            /\ s.alive = alive
            /\ s.panicked = "no"
            /\ s.triggered = <<>>

C4_Witness ==
    /\ lastOp.op = "remove"
    /\ lastOp.wasQueued
    /\ len(Cur) = NumElems - 1
    /\ \E e \in removedSet : waker[e] # NoWaker /\ ~queued[e]

\* C5: remove_waiter on a record that is not linked changes nothing, and
\* remove_waiter applied twice has the effect of applying it once.
C5_RemoveUnlinked ==
    \A e \in Recs : Callable(e) =>
        /\ (~queued[e] => remove_waiter(Begin, e) = Begin)
        /\ remove_waiter(remove_waiter(Begin, e), e) = remove_waiter(Begin, e)

C5_Witness ==
    /\ lastOp.op = "remove"
    /\ ~lastOp.wasQueued
    /\ len(Cur) >= 1
    /\ removedSet # {}

\* C6: enqueue_waiter on an already linked record adds no second linkage: the
\* length, the linked records and their order are unchanged whatever handle is
\* passed, and no record occurs twice in the list.
C6_EnqueueLinked ==
    LET fwd == Forward(Cur)
        bwd == Backward(Cur)
    IN  /\ NoDuplicates(fwd)
        /\ NoDuplicates(bwd)
        /\ \A e \in Recs, w \in Wakers : Callable(e) /\ queued[e] =>
              LET s == enqueue_waiter(Begin, e, w)
              IN  /\ Forward(s) = fwd
                  /\ Backward(s) = bwd
                  /\ s.head = head /\ s.tail = tail
                  /\ s.pointers = pointers
                  /\ s.queued = queued

C6_Witness ==
    /\ lastOp.op = "enqueue"
    /\ lastOp.wasQueued
    /\ lastOp.handle = "other"
    /\ len(Cur) >= 2

\* C7: when will_wake holds between the stored handle and the one passed,
\* enqueue_waiter keeps the stored handle, and on a linked record the whole
\* state is unchanged.
C7_SameTaskKeepsHandle ==
    \A e \in Recs, w \in Wakers : Callable(e) /\ will_wake(waker[e], w) =>
        LET s == enqueue_waiter(Begin, e, w)
        IN  /\ s.waker = waker
            /\ (queued[e] => s = Begin)

C7_Witness ==
    /\ lastOp.op = "enqueue"
    /\ lastOp.wasQueued
    /\ lastOp.handle = "same_task"

\* C8: after enqueue_waiter calls on k distinct records and nothing else, len
\* is k; and in every state len equals len_backwards and the number of records
\* whose queued flag is true.
C8_Length ==
    panicked = "no" =>
        /\ len(Cur) = len_backwards(Cur)
        /\ len(Cur) = Cardinality(Linked)
        /\ (enqOnly => len(Cur) = Cardinality(enqSet))

C8_Witness ==
    /\ enqOnly
    /\ Cardinality(enqSet) = NumElems
    /\ lastOp.op = "enqueue"
    /\ lastOp.wasQueued

\* C9: each awake_waiters call triggers exactly the records linked when it
\* starts, each once and oldest first; a record registered by the next call
\* after it is not triggered by it and is linked, alone, for the next one.
C9_WakeExactlyLinked ==
    panicked = "no" =>
        /\ LET s == awake_waiters(Begin)
               recs == RecsOf(s.triggered)
           IN  /\ Range(recs) = Linked
               /\ Range(recs) = Range(Forward(Cur))
               /\ Len(recs) = Cardinality(Linked)
               /\ \A i, j \in 1 .. Len(recs) :
                     i < j => \E a, b \in 1 .. Len(order) :
                                 a < b /\ order[a] = recs[i] /\ order[b] = recs[j]
        /\ lastOp.op = "awake" =>
              \A e \in Recs, w \in Wakers : alive[e] =>
                  LET s == enqueue_waiter(Begin, e, w)
                  IN  /\ s.triggered = <<>>
                      /\ LinkedIn(s) = {e}
                      /\ Forward(s) = <<e>>
                      /\ will_wake(s.waker[e], w)
                      /\ RecsOf(awake_waiters(s).triggered) = <<e>>

C9_Witness ==
    /\ lastOp.op = "awake"
    /\ Len(triggered) = NumElems
    /\ \E i, j \in 1 .. Len(triggered) : triggered[i].waker.task # triggered[j].waker.task

\* C10: dropping an Elem fails its assertion exactly when its queued flag is
\* true; a drop that calls remove_waiter first, as Bar's does, never fails it,
\* also when the record is still linked (the future is still pending).
C10_DropAssertion ==
    \A e \in Recs : Callable(e) =>
        /\ Elem_drop(Begin, e).panicked # "no" <=> queued[e]
        /\ LET s == Bar_drop(Begin, e)
           IN  /\ s.panicked = "no"
               /\ ~s.alive[e]
               /\ ~s.queued[e]
               /\ e \notin Range(Forward(s))

C10_Witness ==
    /\ lastOp.op = "bar_drop"
    /\ lastOp.wasQueued
    /\ panicked = "no"
    /\ len(Cur) >= 1

\* The second list as seen with the first list's head and tail put back.
AsFirst(s) == [s EXCEPT !.head = head, !.tail = tail]
AsSecond(s) == [s EXCEPT !.head = second.head, !.tail = second.tail]

\* C11: with two lists, no record is ever reachable from both; enqueue_waiter
\* on one list of a record linked in the other does not link it: the list's
\* contents and length are unchanged, the record stays in the other list and
\* is not triggered by this list's awake_waiters.
C11_OneListAtATime ==
    panicked = "no" =>
        /\ Members(Begin) \cap Members(BeginSecond) = {}
        /\ Members(Begin) \cup Members(BeginSecond) = Linked
        /\ Range(Backward(Begin)) = Members(Begin)
        /\ Range(Backward(BeginSecond)) = Members(BeginSecond)
        /\ \A e \in Members(Begin), w \in Wakers :
              LET s == enqueue_waiter(BeginSecond, e, w)
              IN  /\ Forward(s) = Forward(BeginSecond)
                  /\ Backward(s) = Backward(BeginSecond)
                  /\ len(s) = len(BeginSecond)
                  /\ s.pointers = pointers /\ s.queued = queued
                  /\ Forward(AsFirst(s)) = Forward(Begin)
                  /\ e \notin Woken(awake_waiters(s).triggered)
                  /\ e \in Members(AsFirst(awake_waiters(s)))
        /\ \A e \in Members(BeginSecond), w \in Wakers :
              LET s == enqueue_waiter(Begin, e, w)
              IN  /\ Forward(s) = Forward(Begin)
                  /\ Backward(s) = Backward(Begin)
                  /\ len(s) = len(Begin)
                  /\ s.pointers = pointers /\ s.queued = queued
                  /\ Forward(AsSecond(s)) = Forward(BeginSecond)
                  /\ e \notin Woken(awake_waiters(s).triggered)
                  /\ e \in Members(AsSecond(awake_waiters(s)))

C11_Witness ==
    /\ lastOp.op = "enqueue_second"
    /\ lastOp.wasQueued
    /\ lastOp.handle = "other"
    /\ Members(Begin) = Shared
    /\ Members(BeginSecond) = {}
    /\ panicked = "no"

\* C12: a record's queued flag is true exactly when the record is reachable
\* walking forward from the head, and exactly when it is reachable walking
\* backward from the tail; so assert!(waiter.queued) holds for every record
\* awake_waiters pops.
C12_FlagMeansReachable ==
    panicked = "no" =>
        /\ Range(Forward(Cur)) = Linked
        /\ Range(Backward(Cur)) = Linked
        /\ awake_waiters(Begin).panicked # "assert_queued"

C12_Witness ==
    /\ lastOp.op = "awake"
    /\ Len(triggered) = NumElems - 1
    /\ Cardinality(removedSet) = 1
    /\ panicked = "no"

\* C13: a record whose queued flag is true has a stored handle, so the
\* waker.take().unwrap() of awake_waiters does not panic.
C13_QueuedHasWaker ==
    panicked = "no" =>
        /\ \A e \in Slots : queued[e] => waker[e] # NoWaker
        /\ awake_waiters(Begin).panicked = "no"

C13_Witness ==
    /\ lastOp.op = "awake"
    /\ Len(triggered) >= 2
    /\ \A i \in 1 .. Len(triggered) : triggered[i].waker # NoWaker
    /\ \E e \in Recs : ~alive[e]
    /\ panicked = "no"

\* C14: a record has a stored handle exactly when it has been registered
\* (since it was constructed) and not woken by awake_waiters since: a new
\* record has none, enqueue_waiter stores one, remove_waiter leaves it and
\* awake_waiters takes it from the records it wakes.
C14_HandlePresence ==
    panicked = "no" =>
        /\ \A e \in Recs : waker[e] # NoWaker <=> e \in registered
        /\ \A e \in Recs :
              /\ ~alive[e] => Elem_new(Begin, e).waker[e] = NoWaker
              /\ alive[e] =>
                    /\ \A w \in Wakers : enqueue_waiter(Begin, e, w).waker[e] # NoWaker
                    /\ remove_waiter(Begin, e).waker = waker
        /\ LET s == awake_waiters(Begin)
           IN  \A e \in Recs :
                   s.waker[e] = IF e \in Woken(s.triggered) THEN NoWaker ELSE waker[e]

C14_Witness ==
    /\ lastOp.op = "remove"
    /\ lastOp.wasQueued
    /\ \E e \in removedSet : waker[e] # NoWaker /\ e \in registered
    /\ \E o \in Recs : alive[o] /\ waker[o] = NoWaker /\ o \notin registered
    /\ queued # [e \in Slots |-> FALSE]

\* C15: when awake_waiters triggers a record's handle the record is already
\* out of the list, its queued flag is false and its stored handle is taken;
\* an enqueue_waiter of that record after the call stores the handle passed
\* and links the record as the newest entry.
C15_UnlinkedWhenWoken ==
    panicked = "no" => \A b \in {Begin, BeginSecond} :
        LET a == awake_waiters(b)
            after == [a EXCEPT !.triggered = <<>>]
        IN  /\ \A i \in 1 .. Len(a.triggered) :
                  /\ ~a.triggered[i].queued
                  /\ a.triggered[i].stored = NoWaker
                  /\ a.triggered[i].detached
            /\ \A e \in Woken(a.triggered), w \in Wakers :
                  LET s == enqueue_waiter(after, e, w)
                  IN  /\ s.waker[e] = w
                      /\ s.queued[e]
                      /\ s.head = e
                      /\ Forward(s) = <<e>> \o Forward(after)
                      /\ s.triggered = <<>>

C15_Witness ==
    /\ lastOp.op = "awake"
    /\ Len(triggered) = NumShared
    /\ \A i \in 1 .. Len(triggered) :
          ~triggered[i].queued /\ triggered[i].stored = NoWaker /\ triggered[i].detached
    /\ \A e \in Shared : ~queued[e] /\ waker[e] = NoWaker

\* C16: awake_waiters terminates: on a list of n linked records the loop
\* makes exactly n turns, each popping and triggering one record, and returns
\* with the list empty; this holds in every state, so also for the records
\* that were woken and registered again after the call returned.
C16_AwakeTerminates ==
    panicked = "no" => \A b \in {Begin, BeginSecond} :
        LET n == len(b)
            s == awake_loop(b, n)
        IN  /\ popped(s) = Null
            /\ is_empty(s)
            /\ s.panicked = "no"
            /\ Len(s.triggered) = n
            /\ s = awake_waiters(b)
            /\ n > 0 => ~is_empty(awake_loop(b, n - 1))

C16_Witness ==
    /\ lastOp.op = "awake_second"
    /\ Len(triggered) = NumShared
    /\ popped(BeginSecond) = Null
    /\ is_empty(BeginSecond)
    /\ ~enqOnly
    /\ panicked = "no"

\* C18: enqueue_waiter on a linked record with a handle that does not wake the
\* task of the stored one overwrites the stored handle and leaves the record
\* where it is; the next awake_waiters triggers the new handle, once, at the
\* record's place in the wake order, and not the replaced one.
C18_OverwriteKeepsPlace ==
    \A e \in Members(Begin), w \in Wakers :
        Callable(e) /\ queued[e] /\ ~will_wake(waker[e], w) =>
            LET s == enqueue_waiter(Begin, e, w)
                a == awake_waiters(s)
            IN  /\ s.waker = [waker EXCEPT ![e] = w]
                /\ Forward(s) = Forward(Cur)
                /\ Backward(s) = Backward(Cur)
                /\ RecsOf(a.triggered) = order
                /\ Cardinality({i \in 1 .. Len(a.triggered) : a.triggered[i].rec = e}) = 1
                /\ \A i \in 1 .. Len(a.triggered) :
                      /\ a.triggered[i].rec = e => a.triggered[i].waker = w
                      /\ a.triggered[i].rec # e =>
                            a.triggered[i].waker = waker[a.triggered[i].rec]

\* A full list whose newest record gets the handle of another task: the handle
\* is stored, and the next awake_waiters wakes it last, as the record was.
C18_Witness ==
    /\ panicked = "no"
    /\ len(Cur) = NumShared
    /\ order[NumShared] = head
    /\ \E w \in Wakers :
          /\ waker[head] # NoWaker
          /\ ~will_wake(waker[head], w)
          /\ LET s == enqueue_waiter(Begin, head, w)
                 a == awake_waiters(s)
             IN  /\ s.waker[head] = w /\ s.waker[head] # waker[head]
                 /\ a.triggered[NumShared].rec = head
                 /\ a.triggered[NumShared].waker = w

\* C19: a record's place in the wake order is that of its most recent
\* Unlinked->Linked transition: a record registered while unlinked, whether
\* new, removed or woken before, is woken after every record linked then.
C19_ReRegisterLast ==
    \A e \in Recs, w \in Wakers :
        Callable(e) /\ ~queued[e] =>
            LET s == enqueue_waiter(Begin, e, w)
                a == awake_waiters(s)
            IN  /\ s.head = e
                /\ Backward(s) = Append(Backward(Cur), e)
                /\ RecsOf(a.triggered) = Append(order, e)
                /\ will_wake(a.triggered[Len(a.triggered)].waker, w)

\* A record has been removed while the others stayed linked; registered
\* again, it is linked as the newest and woken after them.
C19_Witness ==
    /\ panicked = "no"
    /\ lastOp.op = "remove"
    /\ lastOp.wasQueued
    /\ Len(order) = NumShared - 1
    /\ \E e \in removedSet, w \in Wakers :
          /\ alive[e] /\ ~queued[e] /\ waker[e] # NoWaker
          /\ LET s == enqueue_waiter(Begin, e, w)
             IN  /\ s.head = e
                 /\ RecsOf(awake_waiters(s).triggered) = Append(order, e)

\* C20: awake_waiters on an empty list triggers nothing and changes nothing:
\* records that are not linked in it keep their flags and stored handles; so
\* a second awake_waiters right after a first one triggers nothing.
C20_AwakeEmpty ==
    panicked = "no" =>
        \A b \in {Begin, BeginSecond} :
            /\ is_empty(b) => awake_waiters(b) = b
            /\ LET a == [awake_waiters(b) EXCEPT !.triggered = <<>>]
               IN  /\ is_empty(a)
                   /\ awake_waiters(a) = a

C20_Witness ==
    /\ lastOp.op = "awake_second"
    /\ triggered = <<>>
    /\ \E e \in removedSet : waker[e] # NoWaker /\ ~queued[e]
    /\ is_empty(BeginSecond)
    /\ ~is_empty(Begin)

\* C17: a record's queued flag becomes true only in an enqueue_waiter step on
\* that record while it is not linked, and false only in a remove_waiter step
\* on that record (called directly or by Bar's drop) or in an awake_waiters
\* step that pops it; every other step leaves every flag as it is, and
\* enqueue_waiter and remove_waiter change no other record's flag.
Flipped == {e \in Slots : queued'[e] # queued[e]}

C17_FlagTransitions ==
    [][/\ \A e \in Flipped :
             IF queued'[e]
             THEN /\ lastOp'.op = "enqueue"
                  /\ ~lastOp'.wasQueued
                  /\ \E w \in Wakers : Cur' = enqueue_waiter(Begin, e, w)
             ELSE \/ lastOp'.op = "remove" /\ Cur' = remove_waiter(Begin, e)
                  \/ lastOp'.op = "bar_drop" /\ Cur' = Bar_drop(Begin, e)
                  \/ lastOp'.op = "awake" /\ e \in Woken(triggered')
       /\ lastOp'.op # "awake" => Cardinality(Flipped) <= 1
       /\ lastOp'.op \in {"new", "elem_drop"} => Flipped = {}]_vars

C17_Witness ==
    /\ lastOp.op = "awake"
    /\ Len(triggered) = NumElems - 1
    /\ \E e \in Recs : ~alive[e]
    /\ \A e \in Recs : ~queued[e]
    /\ panicked = "no"

====
